---- MODULE Spec2Model ----
(***************************************************************************)
(* Model of flir_spinnaker_ros2 CameraDriver (src/src/camera_driver.cpp):  *)
(* the frame handoff queue between the device callback (publishImage) and  *)
(* the publishing thread (run / doPublish), the start()/stop() life cycle, *)
(* the status timer (printStatus) and the control callback.                *)
(***************************************************************************)
EXTENDS Integers, Sequences, FiniteSets, TLC

\* ------------------------------------------------------------------ bounds
\* number of frames the device delivers in one run of the model
MaxFrames == 3
\* number of frames the device delivers in a run checked for liveness
LiveFrames == 2
\* number of control messages delivered in one run of the model
MaxCmds == 2
\* number of settings in a parameter batch
MaxBatch == 2
\* number of lines in a parameter definition file
MaxLines == 3

\* ------------------------------------------------------- program constants
\* publishImage: "if (imageQueue_.size() < 2)"
QueueCapacity == 2
\* start() with one more pass of the discovery loop
RetryEndOneMore == 6 + 1

\* start(): "for (int retry = 1; retry < 6; retry++)"
RetryEnd == 6

\* run, line 462: "ImageConstPtr img;" is the null pointer
NoFrame == 0

\* controlCallback, line 422: std::numeric_limits<float>::lowest(), the least gain
GainLowest == -1000

\* values of msg->exposure_time (uint32, microseconds) and of msg->gain
ExposureTimes == {0, 40, 100}
Gains == {GainLowest, 0, 40}

\* what a call of driver_->setDouble does: it throws a DriverException, or
\* returns the status text msg and reports the value retV the device holds
Replies ==
  [kind : {"ret"}, msg : {"OK", "ERR"}, retV : {0, 40, 41, 100}]
    \cup {[kind |-> "throw", msg |-> "", retV |-> 0]}

VARIABLES
  \* ---- life cycle (start / stop)
  pcStart,        \* position of start(): "readFile","discover","thread","init","done","failed"
  retry,          \* loop variable of the discovery loop of start()
  pcStop,         \* position of stop(): "idle","stopCamera","cancelTimer","clearFlag","join","done"
  keepRunning,    \* keepRunning_
  rosOk,          \* rclcpp::ok()
  cameraRunning,  \* cameraRunning_
  threadSet,      \* thread_ != nullptr
  timerActive,    \* !statusTimer_->is_canceled()
  \* ---- handoff queue
  imageQueue,     \* imageQueue_ (front = head of the sequence, back = its last element)
  mutex,          \* owner of mutex_: "none", "producer", "consumer"
  woken,          \* why the consumer's cv_.wait_for returns: "none","notify","timeout"
  droppedCount,   \* droppedCount_
  publishedCount, \* publishedCount_
  \* ---- producer (device delivery thread inside publishImage)
  pcProd,         \* "idle" or "locked" (inside the locked section of publishImage)
  nextFrame,      \* id of the next frame the device will deliver
  frameLimit,     \* number of frames the device delivers in this run
  \* ---- consumer (thread running run())
  pcRun,          \* "none","loop","lock","inner","wait","pop","guard","publish","done"
  img,            \* local img of run(): NoFrame is the null pointer
  published,      \* frames emitted by pub_.publish, in emission order
  metaMsg,        \* metaMsg_: the frame whose metadata was last sent by metaPub_->publish
  \* ---- status timer
  pcStatus,       \* position of printStatus(): "idle", "reset"
  \* ---- control callback
  currentExposureTime, \* currentExposureTime_
  currentGain,         \* currentGain_
  hasNode,             \* which of "exposure_time", "gain" parameterMap_ holds
  deviceWrites,        \* device calls driver_->setDouble(node, v) made so far
  cmdCount,            \* number of control messages handled
  lastCmd,             \* the last control message <<et, gain>>
  lastOut,             \* what the last control message did per field
  \* ---- parameter definition file (readParameterFile)
  paramFile,      \* the file named by parameterFile_: whether it opens, and its lines
  parameterList,  \* parameterList_
  parameterMap,   \* parameterMap_
  pcFile,         \* readParameterFile(): "none" (not called), "loaded", "failed"
  \* ---- parameter callback (parameterChanged)
  paramBatch,     \* the settings of params the loop of parameterChanged has reached
  paramCalls,     \* device calls made for the batch: index of the setting, node, call
  paramOut,       \* what the handler did with each setting
  paramResult,    \* "none" (in the loop), "successful" (returned), "escaped" (exception left)
  \* ---- typed applies (setEnum / setDouble / setInt / setBool)
  applyIn,        \* one call: [kind, v, msg, retV], msg and retV as the device gives them
  applyDone,      \* the call has returned
  applyStatus,    \* the status it returned
  \* ---- start() outcome
  startFault,     \* what went wrong in start(): "none", "file", "camera", "init"
  \* ---- what became of the frames, what the status reports said
  fate,           \* frame -> "dropped" (at push), "discarded" (line 478), "published" (doPublish ran)
  statusSeen        \* printStatus: the values of publishedCount_, droppedCount_ it read

lifeVars == <<pcStart, retry, pcStop, keepRunning, rosOk, cameraRunning, threadSet, timerActive>>
queueVars == <<imageQueue, mutex, woken, droppedCount, publishedCount>>
prodVars == <<pcProd, nextFrame, frameLimit>>
runVars == <<pcRun, img, published, metaMsg>>
ctrlVars == <<currentExposureTime, currentGain, hasNode, deviceWrites, cmdCount, lastCmd, lastOut>>
fileVars == <<paramFile, parameterList, parameterMap, pcFile>>
paramVars == <<paramBatch, paramCalls, paramOut, paramResult>>
applyVars == <<applyIn, applyDone, applyStatus>>
configVars == <<fileVars, paramVars, applyVars>>
countVars == <<fate, statusSeen>>
histVars == <<startFault, countVars>>
extVars == <<configVars, histVars>>
vars == <<lifeVars, queueVars, prodVars, runVars, pcStatus, ctrlVars, extVars>>

\* ------------------------------------------------------------ pure helpers
\* publishImage with the size test lost: every frame is appended
PushQueueUnbounded(q, f) == Append(q, f)

\* publishImage dropping the oldest queued frame instead of the incoming one
PushQueueDropOldest(q, f) ==
  IF Len(q) < QueueCapacity THEN Append(q, f) ELSE Append(Tail(q), f)

\* publishImage, lines 449-454: the queue after a push of frame f
PushQueue(q, f) == IF Len(q) < QueueCapacity THEN Append(q, f) ELSE q

\* publishImage, lines 449-454: frame f pushed onto queue q is kept, or is
\* dropped (the shared pointer im goes out of scope at line 456)
PushFate(q, f, ft) == IF Len(q) < QueueCapacity THEN ft ELSE ft @@ (f :> "dropped")

\* publishImage, lines 449-454: the drop counter after a push onto queue q
PushDropped(q, d) == IF Len(q) < QueueCapacity THEN d ELSE d + 1

\* run with doPublish called inside the locked section
LockedSectionKept == "consumer"

\* run, line 474: the unique_lock goes out of scope before line 475
LockedSectionEnd == "none"

\* run taking imageQueue_.front() instead of back()
QueueFront(q) == q[1]

\* run, line 471: img = imageQueue_.back()
QueueBack(q) == q[Len(q)]

\* run without the pop_back of line 472
QueueNoPop(q) == q

\* run, line 472: imageQueue_.pop_back()
QueuePopBack(q) == SubSeq(q, 1, Len(q) - 1)

\* ------------------------------------------- parameter definition file
\* the values of NodeInfo::type
NodeTypes == {"INVALID", "ENUM", "FLOAT", "INT", "BOOL"}

\* the lines a parameter definition file is made of, each as the tokens that
\* "iss >> std::quoted(s)" (line 220) takes from it
FileLines ==
  { <<>>,
    <<"#gain", "float", "Gain">>,
    <<"gain", "float">>,
    <<"gain", "float", "Gain">>,
    <<"gain", "int", "GainRaw">>,
    <<"pixel_format", "enum", "PixelFormat">>,
    <<"mode", "bogus", "Mode">> }

\* the tokens above whose first character is '#'
HashTokens == {"#gain"}

\* readParameterFile, line 224: !tokens[0].empty() && tokens[0][0] == '#'
IsCommentLine(tokens) == tokens[1] # "" /\ tokens[1] \in HashTokens

\* make_desc, lines 53-63, as far as it depends on its arguments
MakeDesc(n, ptype) == [name |-> n, type |-> ptype]

\* NodeInfo::NodeInfo, lines 94-111: no branch is taken for another kind, the
\* descriptor is then the default one and type is what the object's memory
\* held (junk) unless the class gives it an initial value
NodeInfo(n, nodeType, junk) ==
  IF nodeType = "float" THEN
    [name |-> n, type |-> "FLOAT", descriptor |-> MakeDesc(n, "DOUBLE")]
  ELSE IF nodeType = "int" THEN
    [name |-> n, type |-> "INT", descriptor |-> MakeDesc(n, "INTEGER")]
  ELSE IF nodeType = "bool" THEN
    [name |-> n, type |-> "BOOL", descriptor |-> MakeDesc(n, "BOOL")]
  ELSE IF nodeType = "enum" THEN
    [name |-> n, type |-> "ENUM", descriptor |-> MakeDesc(n, "STRING")]
  ELSE [name |-> n, type |-> junk, descriptor |-> MakeDesc("", "NOT_SET")]

\* parameterMap_ before readParameterFile
EmptyMap == [k \in {} |-> 0]

\* an insert that replaces the element of an equal key
MapInsertOverwrite(m, k, v) == [x \in DOMAIN m \cup {k} |-> IF x = k THEN v ELSE m[x]]

\* readParameterFile, line 231: std::map insert keeps the element of an equal key
MapInsert(m, k, v) == IF k \in DOMAIN m THEN m ELSE m @@ (k :> v)

\* readParameterFile, lines 223-233: one line of the file, from st = [map, list]
ReadLine(tokens, st, junk) ==
  IF tokens = <<>> THEN st
  ELSE IF IsCommentLine(tokens) THEN st
  ELSE IF Len(tokens) # 3 THEN st
  ELSE [map |-> MapInsert(st.map, tokens[1], NodeInfo(tokens[3], tokens[2], junk)),
        list |-> Append(st.list, tokens[1])]

\* readParameterFile, lines 216-235: the loop over the lines
RECURSIVE ReadLines(_, _, _)
ReadLines(lines, st, junk) ==
  IF lines = <<>> THEN st
  ELSE ReadLines(Tail(lines), ReadLine(Head(lines), st, junk), junk)

\* the registered parameters after readParameterFile has read the lines
LoadedFrom(lines, junk) == ReadLines(lines, [map |-> EmptyMap, list |-> <<>>], junk)

\* readParameterFile has not run
InitFile ==
  /\ paramFile = [readable |-> TRUE, lines |-> <<>>]
  /\ parameterList = <<>> /\ parameterMap = EmptyMap /\ pcFile = "none"

\* readParameterFile has read the lines
InitFileLoaded(lines, junk) ==
  /\ paramFile = [readable |-> TRUE, lines |-> lines]
  /\ parameterList = LoadedFrom(lines, junk).list
  /\ parameterMap = LoadedFrom(lines, junk).map
  /\ pcFile = "loaded"

\* start() has met no fault, no frame has been delivered, no status reported
InitHist ==
  /\ startFault = "none"
  /\ fate = EmptyMap /\ statusSeen = <<0, 0>>

\* no parameter batch has arrived, no typed apply has been called
InitExt ==
  /\ applyIn = [kind |-> "none", v |-> 0, msg |-> "", retV |-> 0]
  /\ applyDone = FALSE /\ applyStatus = FALSE
  /\ paramBatch = <<>> /\ paramCalls = <<>> /\ paramOut = <<>> /\ paramResult = "none"
  /\ InitHist

\* ------------------------------------------------------------------- Init
\* The object as the constructor finds it (lines 113-119): the status timer is
\* created, nothing else has run. The members' in-class initial values are not
\* part of camera_driver.cpp: keepRunning_ is left open (start() sets it before
\* the thread reads it), the control state starts at its "unset" values
\* (exposure 0, gain lowest()) and the counters at 0.
InitWith(limit) ==
  /\ frameLimit = limit
  /\ pcStart = "readFile" /\ retry = 1 /\ pcStop = "idle"
  /\ keepRunning \in BOOLEAN      \* set by start() before the thread exists
  /\ rosOk = TRUE /\ cameraRunning = FALSE /\ threadSet = FALSE /\ timerActive = TRUE
  /\ imageQueue = <<>> /\ mutex = "none" /\ woken = "none"
  /\ droppedCount = 0 /\ publishedCount = 0
  /\ pcProd = "idle" /\ nextFrame = 1
  /\ pcRun = "none" /\ img = NoFrame /\ published = <<>> /\ metaMsg = NoFrame
  /\ pcStatus = "idle"
  /\ currentExposureTime = 0 /\ currentGain = GainLowest
  /\ hasNode = {} /\ deviceWrites = <<>> /\ cmdCount = 0
  /\ lastCmd = <<0, GainLowest>> /\ lastOut = <<"none", "none">>
  /\ InitFile /\ InitExt

\* the state before the constructor calls start()
Init == InitWith(MaxFrames)

\* ---------------------------------------------------------------- start()
\* start(), lines 563-566: readParameterFile() fails -> return false
StartReadFile ==
  /\ pcStart = "readFile"
  /\ \E ok \in BOOLEAN :
       /\ pcStart' = IF ok THEN "discover" ELSE "failed"
       /\ startFault' = IF ok THEN startFault ELSE "file"
  /\ UNCHANGED <<retry, pcStop, keepRunning, rosOk, cameraRunning, threadSet, timerActive>>
  /\ UNCHANGED <<queueVars, prodVars, runVars, pcStatus, ctrlVars, configVars, countVars>>

\* start(), lines 609-624: one pass of the discovery loop
StartDiscover ==
  /\ pcStart = "discover" /\ retry < RetryEnd
  /\ \E found \in BOOLEAN :
       IF found THEN pcStart' = "thread" /\ retry' = retry
                ELSE pcStart' = pcStart /\ retry' = retry + 1
  /\ UNCHANGED <<pcStop, keepRunning, rosOk, cameraRunning, threadSet, timerActive>>
  /\ UNCHANGED <<queueVars, prodVars, runVars, pcStatus, ctrlVars, extVars>>

\* start(), lines 609, 625-628: the loop ends without the camera: return false
StartGiveUp ==
  /\ pcStart = "discover" /\ ~(retry < RetryEnd)
  /\ pcStart' = "failed" /\ startFault' = "camera"
  /\ UNCHANGED <<retry, pcStop, keepRunning, rosOk, cameraRunning, threadSet, timerActive>>
  /\ UNCHANGED <<queueVars, prodVars, runVars, pcStatus, ctrlVars, configVars, countVars>>

\* start(), lines 629-630: keepRunning_ = true; thread_ = make_shared<thread>(run)
StartThread ==
  /\ pcStart = "thread"
  /\ keepRunning' = TRUE /\ threadSet' = TRUE /\ pcRun' = "loop"
  /\ pcStart' = "init"
  /\ UNCHANGED <<retry, pcStop, rosOk, cameraRunning, timerActive>>
  /\ UNCHANGED <<queueVars, prodVars, img, published, metaMsg, pcStatus, ctrlVars, extVars>>

\* start(), lines 632-647 with startCamera(), lines 547-559: where initCamera
\* fails the else branch of line 644 logs "init camera failed", and line 647,
\* "return (true)", is reached on both branches
StartInit ==
  /\ pcStart = "init"
  /\ \E initOk \in BOOLEAN, camOk \in BOOLEAN :
       /\ cameraRunning' = IF initOk /\ ~cameraRunning THEN camOk ELSE cameraRunning
       /\ startFault' = IF initOk THEN startFault ELSE "init"
       /\ pcStart' = "done"
  /\ UNCHANGED <<retry, pcStop, keepRunning, rosOk, threadSet, timerActive>>
  /\ UNCHANGED <<queueVars, prodVars, runVars, pcStatus, ctrlVars, configVars, countVars>>

\* rclcpp::ok() turns false (context shutdown), lines 460, 467, 475 read it
RosShutdown ==
  /\ rosOk /\ rosOk' = FALSE
  /\ UNCHANGED <<pcStart, retry, pcStop, keepRunning, cameraRunning, threadSet, timerActive>>
  /\ UNCHANGED <<queueVars, prodVars, runVars, pcStatus, ctrlVars, extVars>>

\* ----------------------------------------------------------------- stop()
\* stop(), lines 135-138 with stopCamera(), lines 150-157 (the destructor calls
\* stop(), so only after the constructor, hence start(), succeeded)
StopCamera ==
  /\ pcStart = "done" /\ pcStop = "idle"
  /\ cameraRunning' = FALSE
  /\ pcStop' = "cancelTimer"
  /\ UNCHANGED <<pcStart, retry, keepRunning, rosOk, threadSet, timerActive>>
  /\ UNCHANGED <<queueVars, prodVars, runVars, pcStatus, ctrlVars, extVars>>

\* stop(), lines 139-141
StopCancelTimer ==
  /\ pcStop = "cancelTimer"
  /\ timerActive' = FALSE
  /\ pcStop' = "clearFlag"
  /\ UNCHANGED <<pcStart, retry, keepRunning, rosOk, cameraRunning, threadSet>>
  /\ UNCHANGED <<queueVars, prodVars, runVars, pcStatus, ctrlVars, extVars>>

\* stop(), line 142: keepRunning_ = false (cv_ is not notified)
StopClearFlag ==
  /\ pcStop = "clearFlag"
  /\ keepRunning' = FALSE
  /\ pcStop' = "join"
  /\ UNCHANGED <<pcStart, retry, rosOk, cameraRunning, threadSet, timerActive>>
  /\ UNCHANGED <<queueVars, prodVars, runVars, pcStatus, ctrlVars, extVars>>

\* stop(), lines 143-147: thread_->join() returns once run() has returned
StopJoin ==
  /\ pcStop = "join"
  /\ IF threadSet THEN pcRun = "done" /\ threadSet' = FALSE
                  ELSE threadSet' = threadSet
  /\ pcStop' = "done"
  /\ UNCHANGED <<pcStart, retry, keepRunning, rosOk, cameraRunning, timerActive>>
  /\ UNCHANGED <<queueVars, prodVars, runVars, pcStatus, ctrlVars, extVars>>

\* ------------------------------------------------- producer: publishImage
\* publishImage, line 448: the device thread takes mutex_ for the next frame
PublishImageLock ==
  /\ cameraRunning /\ pcProd = "idle" /\ nextFrame <= frameLimit
  /\ mutex = "none"
  /\ mutex' = "producer" /\ pcProd' = "locked"
  /\ UNCHANGED <<lifeVars, imageQueue, woken, droppedCount, publishedCount>>
  /\ UNCHANGED <<nextFrame, frameLimit, runVars, pcStatus, ctrlVars, extVars>>

\* publishImage, lines 449-455: push or drop, notify_all, unlock
PublishImagePush ==
  /\ pcProd = "locked"
  /\ imageQueue' = PushQueue(imageQueue, nextFrame)
  /\ droppedCount' = PushDropped(imageQueue, droppedCount)
  /\ woken' = IF Len(imageQueue) < QueueCapacity /\ pcRun = "wait" /\ woken = "none"
              THEN "notify" ELSE woken
  /\ mutex' = "none" /\ pcProd' = "idle" /\ nextFrame' = nextFrame + 1
  /\ fate' = PushFate(imageQueue, nextFrame, fate)
  /\ UNCHANGED frameLimit
  /\ UNCHANGED <<lifeVars, publishedCount, runVars, pcStatus, ctrlVars>>
  /\ UNCHANGED <<configVars, startFault, statusSeen>>

\* ------------------------------------------------------- consumer: run()
\* run, line 460: while (keepRunning_ && rclcpp::ok())
RunLoopTest ==
  /\ pcRun = "loop"
  /\ pcRun' = IF keepRunning /\ rosOk THEN "lock" ELSE "done"
  /\ UNCHANGED <<lifeVars, queueVars, prodVars, img, published, metaMsg, pcStatus, ctrlVars, extVars>>

\* run, line 464: unique_lock lock(mutex_)
RunLock ==
  /\ pcRun = "lock" /\ mutex = "none"
  /\ mutex' = "consumer" /\ pcRun' = "inner"
  /\ UNCHANGED <<lifeVars, imageQueue, woken, droppedCount, publishedCount>>
  /\ UNCHANGED <<prodVars, img, published, metaMsg, pcStatus, ctrlVars, extVars>>

\* run with the wait loop's test not looking at the queue
RunInnerTestAlwaysWait ==
  /\ pcRun = "inner"
  /\ IF keepRunning /\ rosOk
     THEN pcRun' = "wait" /\ mutex' = "none"
     ELSE pcRun' = "pop" /\ mutex' = mutex
  /\ UNCHANGED <<lifeVars, imageQueue, woken, droppedCount, publishedCount>>
  /\ UNCHANGED <<prodVars, img, published, metaMsg, pcStatus, ctrlVars, extVars>>

\* run, lines 467-468: the wait loop's test; cv_.wait_for releases mutex_ and blocks
RunInnerTest ==
  /\ pcRun = "inner"
  /\ IF imageQueue = <<>> /\ keepRunning /\ rosOk
     THEN pcRun' = "wait" /\ mutex' = "none"
     ELSE pcRun' = "pop" /\ mutex' = mutex
  /\ UNCHANGED <<lifeVars, imageQueue, woken, droppedCount, publishedCount>>
  /\ UNCHANGED <<prodVars, img, published, metaMsg, pcStatus, ctrlVars, extVars>>

\* run with cv_.wait in place of cv_.wait_for: no timeout ever expires
RunWaitNoTimeout ==
  /\ pcRun = "wait" /\ woken = "none"
  /\ FALSE
  /\ UNCHANGED vars

\* run, lines 466-468: the one second timeout of wait_for expires
RunWaitTimeout ==
  /\ pcRun = "wait" /\ woken = "none"
  /\ woken' = "timeout"
  /\ UNCHANGED <<lifeVars, imageQueue, mutex, droppedCount, publishedCount>>
  /\ UNCHANGED <<prodVars, runVars, pcStatus, ctrlVars, extVars>>

\* run, line 468: wait_for returns, holding mutex_ again
RunWake ==
  /\ pcRun = "wait" /\ woken # "none" /\ mutex = "none"
  /\ mutex' = "consumer" /\ woken' = "none" /\ pcRun' = "inner"
  /\ UNCHANGED <<lifeVars, imageQueue, droppedCount, publishedCount>>
  /\ UNCHANGED <<prodVars, img, published, metaMsg, pcStatus, ctrlVars, extVars>>

\* run, lines 470-474: pop the back of the queue if there is one, then unlock
RunPop ==
  /\ pcRun = "pop"
  /\ IF imageQueue # <<>>
     THEN img' = QueueBack(imageQueue) /\ imageQueue' = QueuePopBack(imageQueue)
     ELSE img' = NoFrame /\ imageQueue' = imageQueue
  /\ mutex' = LockedSectionEnd /\ pcRun' = "guard"
  /\ UNCHANGED <<lifeVars, woken, droppedCount, publishedCount>>
  /\ UNCHANGED <<prodVars, published, metaMsg, pcStatus, ctrlVars, extVars>>

\* run with line 475 testing img alone
RunGuardNoFlag ==
  /\ pcRun = "guard"
  /\ IF img # NoFrame
     THEN pcRun' = "publish" /\ img' = img
     ELSE pcRun' = "loop" /\ img' = NoFrame
  /\ UNCHANGED <<lifeVars, queueVars, prodVars, published, metaMsg, pcStatus, ctrlVars, extVars>>

\* run, line 475: if (img && keepRunning_ && rclcpp::ok()); a frame that fails
\* the test goes out of scope at line 478
RunGuard ==
  /\ pcRun = "guard"
  /\ IF img # NoFrame /\ keepRunning /\ rosOk
     THEN pcRun' = "publish" /\ img' = img /\ fate' = fate
     ELSE /\ pcRun' = "loop" /\ img' = NoFrame
          /\ fate' = IF img # NoFrame THEN fate @@ (img :> "discarded") ELSE fate
  /\ UNCHANGED <<lifeVars, queueVars, prodVars, published, metaMsg, pcStatus, ctrlVars>>
  /\ UNCHANGED <<configVars, startFault, statusSeen>>

\* doPublish sending the metadata inside the branch of line 511
MetaSentWithImage(imgSub, metaSub) == imgSub /\ metaSub

\* doPublish, line 529: if (metaPub_->get_subscription_count() != 0)
MetaSent(imgSub, metaSub) == metaSub

\* run, line 476 with doPublish, lines 501-538: imgSub is the test of line 511,
\* fillOk what fillImage returns (line 519), metaSub the test of line 529
DoPublishWith(imgSub, fillOk, metaSub) ==
  /\ pcRun = "publish"
  /\ published' = IF imgSub /\ fillOk THEN Append(published, img) ELSE published
  /\ publishedCount' = IF imgSub /\ fillOk THEN publishedCount + 1 ELSE publishedCount
  /\ metaMsg' = IF MetaSent(imgSub, metaSub) THEN img ELSE metaMsg
  /\ img' = NoFrame /\ pcRun' = "loop"
  /\ fate' = fate @@ (img :> "published")
  /\ UNCHANGED <<lifeVars, imageQueue, mutex, woken, droppedCount>>
  /\ UNCHANGED <<prodVars, pcStatus, ctrlVars>>
  /\ UNCHANGED <<configVars, startFault, statusSeen>>

\* run, line 476: doPublish(img), whatever subscribers there are
DoPublish ==
  \E imgSub \in BOOLEAN, fillOk \in BOOLEAN, metaSub \in BOOLEAN :
    DoPublishWith(imgSub, fillOk, metaSub)

\* ------------------------------------------------ status timer: printStatus
\* printStatus, lines 161-173: read the counters and log the rates
PrintStatusRead ==
  /\ pcStart = "done" /\ timerActive /\ pcStatus = "idle"
  /\ pcStatus' = "reset"
  /\ statusSeen' = <<publishedCount, droppedCount>>
  /\ UNCHANGED <<lifeVars, queueVars, prodVars, runVars, ctrlVars>>
  /\ UNCHANGED <<configVars, startFault, fate>>

\* printStatus, lines 174-175: droppedCount_ = 0; publishedCount_ = 0
PrintStatusReset ==
  /\ pcStatus = "reset"
  /\ droppedCount' = 0 /\ publishedCount' = 0
  /\ statusSeen' = <<0, 0>>
  /\ pcStatus' = "idle"
  /\ UNCHANGED <<lifeVars, imageQueue, mutex, woken, prodVars, runVars, ctrlVars>>
  /\ UNCHANGED <<configVars, startFault, fate>>

\* ------------------------------------------------------------ specification
Next ==
  \/ StartReadFile \/ StartDiscover \/ StartGiveUp \/ StartThread \/ StartInit
  \/ RosShutdown
  \/ StopCamera \/ StopCancelTimer \/ StopClearFlag \/ StopJoin
  \/ PublishImageLock \/ PublishImagePush
  \/ RunLoopTest \/ RunLock \/ RunInnerTest \/ RunWaitTimeout \/ RunWake
  \/ RunPop \/ RunGuard \/ DoPublish
  \/ PrintStatusRead \/ PrintStatusReset

Spec == Init /\ [][Next]_vars

\* the steps of the thread running run()
RunStep ==
  RunLoopTest \/ RunLock \/ RunInnerTest \/ RunWake \/ RunPop \/ RunGuard \/ DoPublish

\* the steps of the thread inside stop()
StopStep == StopCancelTimer \/ StopClearFlag \/ StopJoin

\* Scheduling: every thread that can take a step eventually takes it (the consumer
\* thread, the thread inside stop(), a device thread inside publishImage), and the
\* one second timeout of wait_for expires.
Fairness ==
  /\ WF_vars(RunStep)
  /\ WF_vars(RunWaitTimeout)
  /\ WF_vars(StopStep)
  /\ WF_vars(PublishImagePush)

FairInit == InitWith(LiveFrames)

FairSpec == FairInit /\ [][Next]_vars /\ Fairness

\* ------------------------------------- a device that keeps delivering
\* the frames that are gone: dropped, discarded, or through doPublish
GoneFrames == {f \in DOMAIN fate : img # f /\ \A i \in 1..Len(imageQueue) : imageQueue[i] # f}

\* publishImage, line 445: the device calls publishImage again and again, with
\* a new frame each time. A frame that is gone lends its id to the new frame
\* (what became of the old one is forgotten), so that the ids stay within
\* 1..LiveFrames; the counters are kept below MaxFrames + 1.
DeliverNextFrame ==
  /\ cameraRunning /\ pcProd = "idle" /\ nextFrame > frameLimit
  /\ droppedCount < MaxFrames /\ publishedCount < MaxFrames
  /\ \E f \in GoneFrames :
       /\ nextFrame' = f /\ frameLimit' = f
       /\ fate' = [g \in DOMAIN fate \ {f} |-> fate[g]]
       /\ published' = SelectSeq(published, LAMBDA g : g # f)
       /\ metaMsg' = IF metaMsg = f THEN NoFrame ELSE metaMsg
  /\ UNCHANGED <<lifeVars, queueVars, pcProd, pcRun, img, pcStatus, ctrlVars>>
  /\ UNCHANGED <<configVars, startFault, statusSeen>>

\* the state after a successful start() that started the camera
InitRunning ==
  /\ frameLimit = LiveFrames
  /\ pcStart = "done" /\ retry = 1 /\ pcStop = "idle"
  /\ keepRunning = TRUE /\ rosOk = TRUE /\ cameraRunning = TRUE
  /\ threadSet = TRUE /\ timerActive = TRUE
  /\ imageQueue = <<>> /\ mutex = "none" /\ woken = "none"
  /\ droppedCount = 0 /\ publishedCount = 0
  /\ pcProd = "idle" /\ nextFrame = 1
  /\ pcRun = "loop" /\ img = NoFrame /\ published = <<>> /\ metaMsg = NoFrame
  /\ pcStatus = "idle"
  /\ currentExposureTime = 0 /\ currentGain = GainLowest
  /\ hasNode = {} /\ deviceWrites = <<>> /\ cmdCount = 0
  /\ lastCmd = <<0, GainLowest>> /\ lastOut = <<"none", "none">>
  /\ InitFile /\ InitExt

\* the bridge keeps running: nobody calls stop(), the context is not shut down
NextRunning ==
  \/ PublishImageLock \/ PublishImagePush \/ DeliverNextFrame
  \/ RunLoopTest \/ RunLock \/ RunInnerTest \/ RunWaitTimeout \/ RunWake
  \/ RunPop \/ RunGuard \/ DoPublish

\* Scheduling while the device keeps delivering: the consumer thread is
\* scheduled fairly, also where it competes for mutex_ with a device thread
\* that takes it over and over; the one second timeout of wait_for expires; a
\* device thread inside publishImage leaves it. Nothing obliges the device to
\* deliver a frame.
FairnessRunning ==
  /\ SF_vars(RunStep)
  /\ WF_vars(RunWaitTimeout)
  /\ WF_vars(PublishImagePush)

FairSpecRunning == InitRunning /\ [][NextRunning]_vars /\ FairnessRunning

\* --------------------------------------------- control: controlCallback
Abs(x) == IF x < 0 THEN -x ELSE x

\* setDouble keeping only the result of its second test
SetDoubleLastTest(v, msg, retV) ==
  IF 1000 * Abs(v - retV) > 25 * Abs(v + retV) THEN FALSE ELSE TRUE

\* setDouble, lines 281-290: the status returned for request v when the device
\* answers msg and reports retV (0.025 written as 25/1000)
SetDouble(v, msg, retV) ==
  LET s1 == IF msg # "OK" THEN FALSE ELSE TRUE
      s2 == IF 1000 * Abs(v - retV) > 25 * Abs(v + retV) THEN FALSE ELSE s1
  IN s2

\* setEnum, lines 259-274, setInt, lines 293-308, and setBool, lines 310-325,
\* have the same body: the status returned for request v when the device
\* answers msg and reports retV
SetExact(v, msg, retV) ==
  LET s1 == IF msg # "OK" THEN FALSE ELSE TRUE
      s2 == IF v # retV THEN FALSE ELSE s1
  IN s2

SetEnum(v, msg, retV) == SetExact(v, msg, retV)

SetInt(v, msg, retV) == SetExact(v, msg, retV)

SetBool(v, msg, retV) == SetExact(v, msg, retV)

\* what one apply of a field did, from the device's reply r to request v
ApplyOutcome(v, r) ==
  IF r.kind = "throw" THEN "throw"
  ELSE IF SetDouble(v, r.msg, r.retV) THEN "ok"
  ELSE IF r.msg # "OK" THEN "badstatus" ELSE "mismatch"

\* controlCallback testing only that the exposure time differs
ExposureWantedNoSentinel(et, cur) == et # cur

\* controlCallback, line 411: if (et > 0 && et != currentExposureTime_)
ExposureWanted(et, cur) == et > 0 /\ et # cur

\* controlCallback, line 422: if (gain > lowest() && gain != currentGain_)
GainWanted(gain, cur) == gain > GainLowest /\ gain # cur

\* controlCallback without the assignments of lines 416 and 427
StoreNothing(cur, v) == cur

\* controlCallback, lines 416 and 427: the field after setDouble returned
\* (the value setDouble returns is not used)
StoreApplied(cur, v) == v

\* controlCallback, lines 406-435, for message (et, gain); re and rg are the
\* device's replies to the exposure and to the gain call, if they are made
ControlCallback(et, gain, re, rg) ==
  LET expWanted == ExposureWanted(et, currentExposureTime)
      expTry == expWanted /\ "exposure_time" \in hasNode
      expThrow == expTry /\ re.kind = "throw"
      gainWanted == ~expThrow /\ GainWanted(gain, currentGain)
      gainTry == gainWanted /\ "gain" \in hasNode
      gainThrow == gainTry /\ rg.kind = "throw"
      outE == IF ~expWanted THEN "skipped"
              ELSE IF ~expTry THEN "nonode" ELSE ApplyOutcome(et, re)
      outG == IF expThrow THEN "notReached"
              ELSE IF ~gainWanted THEN "skipped"
              ELSE IF ~gainTry THEN "nonode" ELSE ApplyOutcome(gain, rg)
  IN /\ pcStart = "done" /\ cmdCount < MaxCmds
     /\ currentExposureTime' =
          IF expTry /\ ~expThrow THEN StoreApplied(currentExposureTime, et)
                                 ELSE currentExposureTime
     /\ currentGain' =
          IF gainTry /\ ~gainThrow THEN StoreApplied(currentGain, gain)
                                   ELSE currentGain
     /\ deviceWrites' =
          deviceWrites \o (IF expTry THEN << <<"exposure_time", et>> >> ELSE <<>>)
                       \o (IF gainTry THEN << <<"gain", gain>> >> ELSE <<>>)
     /\ cmdCount' = cmdCount + 1
     /\ lastCmd' = <<et, gain>>
     /\ lastOut' = <<outE, outG>>
     /\ UNCHANGED <<hasNode, lifeVars, queueVars, prodVars, runVars, pcStatus, extVars>>

\* a control message arrives
OnControl ==
  \E et \in ExposureTimes, gain \in Gains, re \in Replies, rg \in Replies :
    ControlCallback(et, gain, re, rg)

\* a parameter definition file defining the control nodes in h
ControlFile(h) ==
  SelectSeq(<< <<"exposure_time", "float", "ExposureTime">>, <<"gain", "float", "Gain">> >>,
            LAMBDA l : l[1] \in h)

\* the state after a successful start(), parameterMap_ as the parameter
\* file defined it, before the first control message
InitControl ==
  /\ frameLimit = MaxFrames
  /\ pcStart = "done" /\ retry = 1 /\ pcStop = "idle"
  /\ keepRunning = TRUE /\ rosOk = TRUE /\ cameraRunning \in BOOLEAN
  /\ threadSet = TRUE /\ timerActive = TRUE
  /\ imageQueue = <<>> /\ mutex = "none" /\ woken = "none"
  /\ droppedCount = 0 /\ publishedCount = 0
  /\ pcProd = "idle" /\ nextFrame = 1
  /\ pcRun = "loop" /\ img = NoFrame /\ published = <<>> /\ metaMsg = NoFrame
  /\ pcStatus = "idle"
  /\ currentExposureTime = 0 /\ currentGain = GainLowest
  /\ hasNode \in SUBSET {"exposure_time", "gain"}
  /\ deviceWrites = <<>> /\ cmdCount = 0
  /\ lastCmd = <<0, GainLowest>> /\ lastOut = <<"none", "none">>
  /\ InitFileLoaded(ControlFile(hasNode), "INVALID") /\ InitExt

NextControl == OnControl

SpecControl == InitControl /\ [][NextControl]_vars

\* ------------------------------------------ parameters: parameterChanged
\* rclcpp::ParameterType of the value a setting carries
ParamTypes == {"NOT_SET", "BOOL", "INTEGER", "DOUBLE", "STRING"}

\* a parameter definition file with one parameter of every kind and one of
\* an unknown kind
ParamFileLines ==
  << <<"gain", "float", "Gain">>,
     <<"binning", "int", "BinningHorizontal">>,
     <<"trigger", "bool", "TriggerMode">>,
     <<"pixel_format", "enum", "PixelFormat">>,
     <<"mode", "bogus", "Mode">> >>

\* the names settings carry: parameters of the file, and one that is not
ParamNames == {"gain", "trigger", "pixel_format", "mode", "frame_id"}

\* the elements of params
Settings == [name : ParamNames, type : ParamTypes]

\* what a call of driver_->setEnum/setDouble/setInt/setBool does: it returns
\* with the status verified ("ok") or not ("failed"), or throws a DriverException
DeviceReplies == {"ok", "failed", "throw"}

\* get_double_int_param, lines 65-78: .first for a value of type vtype
GetDoubleIntParam(vtype) == vtype \in {"DOUBLE", "INTEGER"}

\* get_bool_int_param, lines 80-92: .first for a value of type vtype
GetBoolIntParam(vtype) == vtype \in {"BOOL", "INTEGER"}

\* setParameter, lines 327-368: the device call made for a node of the type
\* and a value of type vtype, "none" where it only logs a warning
SetParameter(type, vtype) ==
  IF type = "ENUM" THEN "setEnum"
  ELSE IF type = "FLOAT" THEN (IF GetDoubleIntParam(vtype) THEN "setDouble" ELSE "none")
  ELSE IF type = "INT" THEN (IF GetDoubleIntParam(vtype) THEN "setInt" ELSE "none")
  ELSE IF type = "BOOL" THEN (IF GetBoolIntParam(vtype) THEN "setBool" ELSE "none")
  ELSE "none"

\* parameterChanged without the try block of lines 386-390
EscapesDriverException == FALSE

\* parameterChanged, line 388: catch (const Driver::DriverException & e)
CatchesDriverException == TRUE

\* parameterChanged, lines 373-390: one pass of the loop, for setting p; reply
\* is what the device does if it is called. driver_ is set: start() creates it
\* (line 602) before createCameraParameters declares the parameters of the map.
ParameterChangedNext(p, reply) ==
  LET known == p.name \in DOMAIN parameterMap
      ni == parameterMap[p.name]
      call == IF known /\ p.type # "NOT_SET" THEN SetParameter(ni.type, p.type)
              ELSE "none"
      called == call # "none"
      out == IF ~known THEN "ignored"
             ELSE IF p.type = "NOT_SET" THEN "notset"
             ELSE IF ~called THEN "rejected" ELSE reply
  IN /\ pcStart = "done" /\ paramResult = "none" /\ Len(paramBatch) < MaxBatch
     /\ paramBatch' = Append(paramBatch, p)
     /\ paramCalls' =
          IF called
          THEN Append(paramCalls, [index |-> Len(paramBatch) + 1, node |-> ni.name,
                                   call |-> call])
          ELSE paramCalls
     /\ paramOut' = Append(paramOut, out)
     /\ paramResult' =
          IF called /\ reply = "throw" /\ ~CatchesDriverException THEN "escaped"
          ELSE "none"
     /\ UNCHANGED <<lifeVars, queueVars, prodVars, runVars, pcStatus, ctrlVars>>
     /\ UNCHANGED <<fileVars, applyVars, histVars>>

\* parameterChanged, lines 392-395: the loop is over, res.successful = true
ParameterChangedReturn ==
  /\ pcStart = "done" /\ paramResult = "none"
  /\ paramResult' = "successful"
  /\ UNCHANGED <<paramBatch, paramCalls, paramOut>>
  /\ UNCHANGED <<lifeVars, queueVars, prodVars, runVars, pcStatus, ctrlVars>>
  /\ UNCHANGED <<fileVars, applyVars, histVars>>

\* the loop of parameterChanged reaches the next element of params
ParameterChangedLoop ==
  \E p \in Settings, reply \in DeviceReplies : ParameterChangedNext(p, reply)

\* the state after a successful start() that read ParamFileLines, when a
\* batch of settings arrives
InitParam ==
  /\ frameLimit = MaxFrames
  /\ pcStart = "done" /\ retry = 1 /\ pcStop = "idle"
  /\ keepRunning = TRUE /\ rosOk = TRUE /\ cameraRunning = TRUE
  /\ threadSet = TRUE /\ timerActive = TRUE
  /\ imageQueue = <<>> /\ mutex = "none" /\ woken = "none"
  /\ droppedCount = 0 /\ publishedCount = 0
  /\ pcProd = "idle" /\ nextFrame = 1
  /\ pcRun = "loop" /\ img = NoFrame /\ published = <<>> /\ metaMsg = NoFrame
  /\ pcStatus = "idle"
  /\ currentExposureTime = 0 /\ currentGain = GainLowest
  /\ hasNode = {"gain"}
  /\ deviceWrites = <<>> /\ cmdCount = 0
  /\ lastCmd = <<0, GainLowest>> /\ lastOut = <<"none", "none">>
  /\ \E junk \in NodeTypes : InitFileLoaded(ParamFileLines, junk)
  /\ InitExt

NextParam == ParameterChangedLoop \/ ParameterChangedReturn

SpecParam == InitParam /\ [][NextParam]_vars

\* --------------------------------------- parameter file: readParameterFile
\* the files of at most MaxLines lines
Files == UNION {[1..n -> FileLines] : n \in 0..MaxLines}

\* readParameterFile, lines 209-238, called by start() at line 564
ReadParameterFile ==
  /\ pcStart = "readFile" /\ pcFile = "none"
  /\ IF ~paramFile.readable
     THEN pcFile' = "failed" /\ UNCHANGED <<parameterMap, parameterList>>
     ELSE \E junk \in NodeTypes :
            LET st == ReadLines(paramFile.lines,
                                [map |-> parameterMap, list |-> parameterList], junk)
            IN parameterMap' = st.map /\ parameterList' = st.list /\ pcFile' = "loaded"
  /\ UNCHANGED paramFile
  /\ UNCHANGED <<lifeVars, queueVars, prodVars, runVars, pcStatus, ctrlVars>>
  /\ UNCHANGED <<paramVars, applyVars, histVars>>

\* the state before the constructor calls start(), with the file that
\* parameterFile_ names
InitReadFile ==
  /\ frameLimit = MaxFrames
  /\ pcStart = "readFile" /\ retry = 1 /\ pcStop = "idle"
  /\ keepRunning \in BOOLEAN
  /\ rosOk = TRUE /\ cameraRunning = FALSE /\ threadSet = FALSE /\ timerActive = TRUE
  /\ imageQueue = <<>> /\ mutex = "none" /\ woken = "none"
  /\ droppedCount = 0 /\ publishedCount = 0
  /\ pcProd = "idle" /\ nextFrame = 1
  /\ pcRun = "none" /\ img = NoFrame /\ published = <<>> /\ metaMsg = NoFrame
  /\ pcStatus = "idle"
  /\ currentExposureTime = 0 /\ currentGain = GainLowest
  /\ hasNode = {} /\ deviceWrites = <<>> /\ cmdCount = 0
  /\ lastCmd = <<0, GainLowest>> /\ lastOut = <<"none", "none">>
  /\ paramFile \in [readable : BOOLEAN, lines : Files]
  /\ parameterList = <<>> /\ parameterMap = EmptyMap /\ pcFile = "none"
  /\ InitExt

NextReadFile == ReadParameterFile

SpecReadFile == InitReadFile /\ [][NextReadFile]_vars

\* ------------------------------------------------------------ typed applies
\* the calls of the typed applies: the request v, and the status text and the
\* read-back value of the device; float values are written in tenths
\* (1000 is 100.0, 1024 is 102.4)
ApplyInputs ==
  [kind : {"enum"}, v : {"Mono8", "RGB8"}, msg : {"OK", "ERR"}, retV : {"Mono8", "RGB8", ""}]
    \cup [kind : {"float"}, v : {-1000, 0, 1000}, msg : {"OK", "ERR"},
          retV : {-1000, 0, 1000, 1024, 1050, 1052, 1100}]
    \cup [kind : {"int"}, v : {-1, 0, 4}, msg : {"OK", "ERR"}, retV : {-1, 0, 4, 5}]
    \cup [kind : {"bool"}, v : BOOLEAN, msg : {"OK", "ERR"}, retV : BOOLEAN]

\* one call of setEnum, setDouble, setInt or setBool, lines 259-325
TypedApply ==
  /\ pcStart = "done" /\ ~applyDone
  /\ applyStatus' =
       IF applyIn.kind = "enum" THEN SetEnum(applyIn.v, applyIn.msg, applyIn.retV)
       ELSE IF applyIn.kind = "float" THEN SetDouble(applyIn.v, applyIn.msg, applyIn.retV)
       ELSE IF applyIn.kind = "int" THEN SetInt(applyIn.v, applyIn.msg, applyIn.retV)
       ELSE SetBool(applyIn.v, applyIn.msg, applyIn.retV)
  /\ applyDone' = TRUE
  /\ UNCHANGED applyIn
  /\ UNCHANGED <<lifeVars, queueVars, prodVars, runVars, pcStatus, ctrlVars>>
  /\ UNCHANGED <<fileVars, paramVars, histVars>>

\* the state after a successful start(), when a typed apply is called
InitApply ==
  /\ frameLimit = MaxFrames
  /\ pcStart = "done" /\ retry = 1 /\ pcStop = "idle"
  /\ keepRunning = TRUE /\ rosOk = TRUE /\ cameraRunning = TRUE
  /\ threadSet = TRUE /\ timerActive = TRUE
  /\ imageQueue = <<>> /\ mutex = "none" /\ woken = "none"
  /\ droppedCount = 0 /\ publishedCount = 0
  /\ pcProd = "idle" /\ nextFrame = 1
  /\ pcRun = "loop" /\ img = NoFrame /\ published = <<>> /\ metaMsg = NoFrame
  /\ pcStatus = "idle"
  /\ currentExposureTime = 0 /\ currentGain = GainLowest
  /\ hasNode = {"gain"}
  /\ deviceWrites = <<>> /\ cmdCount = 0
  /\ lastCmd = <<0, GainLowest>> /\ lastOut = <<"none", "none">>
  /\ InitFileLoaded(ParamFileLines, "INVALID")
  /\ applyIn \in ApplyInputs /\ applyDone = FALSE /\ applyStatus = FALSE
  /\ paramBatch = <<>> /\ paramCalls = <<>> /\ paramOut = <<>> /\ paramResult = "none"
  /\ InitHist

NextApply == TypedApply

SpecApply == InitApply /\ [][NextApply]_vars

\* ------------------------------------------------------------------ claims
\* a step of publishImage's locked section (lines 449-455)
PushStep == pcProd = "locked" /\ pcProd' = "idle"

\* a step of run's pop (lines 470-474)
PopStep == pcRun = "pop" /\ pcRun' = "guard"

\* C1: in every reachable state the handoff queue holds at most 2 frames.
C1_QueueBounded == Len(imageQueue) <= 2

\* C1 witness: the queue is full and a push onto the full queue has been dropped
C1_Witness == Len(imageQueue) = 2 /\ droppedCount = 1 /\ nextFrame = 4

\* C2: a push onto a full queue (size 2) leaves the queue as it is and adds
\* exactly 1 to droppedCount; a push onto a queue of size < 2 appends the frame
\* at the tail and leaves droppedCount as it is.
C2_PushPolicy ==
  [][PushStep =>
       IF Len(imageQueue) = 2
       THEN imageQueue' = imageQueue /\ droppedCount' = droppedCount + 1
       ELSE /\ imageQueue' = imageQueue \o <<nextFrame>>
            /\ droppedCount' = droppedCount]_vars

\* C2 witness: F1, F2, F3 were pushed, the queue holds F1, F2 and one drop is counted
C2_Witness ==
  imageQueue = <<1, 2>> /\ nextFrame = 4 /\ droppedCount = 1 /\ pcProd = "idle"

\* C3: a pop from a non-empty queue removes the most recently pushed frame of
\* the queue (frame ids grow in push order) and leaves the others queued, in order.
C3_PopNewest ==
  [][(PopStep /\ imageQueue # <<>>) =>
       /\ \A i \in 1..Len(imageQueue) : imageQueue[i] <= img'
       /\ \E i \in 1..Len(imageQueue) : imageQueue[i] = img'
       /\ imageQueue' = SelectSeq(imageQueue, LAMBDA f : f # img')]_vars

\* C3 witness: the consumer popped F2 from a queue holding F1, F2
C3_Witness == pcRun = "guard" /\ img = 2 /\ imageQueue = <<1>>

\* C4: while the consumer is inside doPublish it does not own mutex_.
C4_NoLockWhilePublishing == pcRun = "publish" => mutex # "consumer"

\* C4 witness: the producer holds mutex_ while the consumer is inside doPublish
C4_Witness == pcRun = "publish" /\ mutex = "producer" /\ pcProd = "locked"

\* C5: once stop() has been called (after a successful start) the consumer
\* leaves its loop and the join returns: stop() terminates.
C5_StopTerminates == (pcStop # "idle") ~> (pcStop = "done" /\ pcRun = "done" /\ ~threadSet)

\* C5 witness: stop() has returned after joining a consumer that had been started
C5_Witness == pcStop = "done" /\ pcRun = "done" /\ ~threadSet /\ imageQueue # <<>>

\* C6: the step of stop() that clears the running flag broadcasts on cv_, so
\* that a consumer blocked in the wait on an empty queue is woken by it.
C6_ClearBroadcasts ==
  [][(keepRunning /\ ~keepRunning' /\ pcRun = "wait" /\ woken = "none")
       => woken' = "notify"]_vars

\* C7 (as claimed): no call of doPublish happens once the running flag is cleared.
C7_NoPublishAfterClear == [][(pcRun = "publish" /\ pcRun' # "publish") => keepRunning]_vars

\* C7 (amended): once the running flag is cleared, the consumer never passes
\* the test of line 475 again: nothing is published unless the consumer had
\* already passed that test, so queued frames and frames popped afterwards are
\* discarded unpublished.
C7_NoGuardPassAfterClear ==
  [][(~keepRunning /\ pcRun # "publish") =>
       (pcRun' # "publish" /\ published' = published /\ metaMsg' = metaMsg)]_vars

\* C7 witness: the consumer has ended after the flag was cleared and a frame
\* is left in the queue, unpublished
C7_Witness ==
  /\ ~keepRunning /\ pcRun = "done" /\ pcStop = "done"
  /\ \E i \in 1..Len(imageQueue) :
       \A j \in 1..Len(published) : published[j] # imageQueue[i]

\* a step of controlCallback
CtrlStep == cmdCount' = cmdCount + 1

\* the device calls made by the step
NewWrites == SubSeq(deviceWrites', Len(deviceWrites) + 1, Len(deviceWrites'))

\* the step called the device for the node
Wrote(node) == \E i \in 1..Len(NewWrites) : NewWrites[i][1] = node

\* the ways an apply can fail
FailedOutcomes == {"badstatus", "mismatch", "throw"}

\* C8: onControl(et, gain) calls the device for exposure only if et > 0 and et
\* differs from currentExposureTime, and for gain only if gain is above the
\* sentinel and differs from currentGain; onControl(0, gain) makes no exposure
\* call and leaves currentExposureTime; a gain equal to currentGain is not written.
C8_WriteOnlyOnChange ==
  [][CtrlStep =>
       /\ Wrote("exposure_time") =>
            (lastCmd'[1] > 0 /\ lastCmd'[1] # currentExposureTime)
       /\ Wrote("gain") => (lastCmd'[2] > GainLowest /\ lastCmd'[2] # currentGain)
       /\ lastCmd'[1] = 0 =>
            (~Wrote("exposure_time") /\ currentExposureTime' = currentExposureTime)
       /\ lastCmd'[2] = currentGain => ~Wrote("gain")
       /\ \A i \in 1..Len(NewWrites) :
            NewWrites[i][2] = IF NewWrites[i][1] = "gain" THEN lastCmd'[2] ELSE lastCmd'[1]
    ]_vars

\* C8 witness: onControl(0, 40) after the exposure had been set to 40: only the
\* gain was written
C8_Witness ==
  /\ cmdCount = 2 /\ lastCmd = <<0, 40>> /\ lastOut = <<"skipped", "ok">>
  /\ currentExposureTime = 40 /\ currentGain = 40
  /\ deviceWrites = << <<"exposure_time", 40>>, <<"gain", 40>> >>

C10_StateFollowsApply ==
  [][CtrlStep =>
       /\ lastOut'[1] = "ok" => currentExposureTime' = lastCmd'[1]
       /\ lastOut'[1] \in FailedOutcomes => currentExposureTime' = currentExposureTime
       /\ lastOut'[2] = "ok" => currentGain' = lastCmd'[2]
       /\ lastOut'[2] \in FailedOutcomes => currentGain' = currentGain]_vars

\* C11: in a command that needs both an exposure write and a gain write, an
\* exception thrown by the device during the exposure apply is caught and the
\* gain apply is still attempted in the same call; a failure of the gain apply
\* does not prevent or undo the exposure apply.
C11_FieldsIsolated ==
  [][(/\ CtrlStep
      /\ ExposureWanted(lastCmd'[1], currentExposureTime)
      /\ GainWanted(lastCmd'[2], currentGain)
      /\ hasNode = {"exposure_time", "gain"}) =>
       /\ Wrote("exposure_time") /\ Wrote("gain")
       /\ lastOut'[2] \in FailedOutcomes =>
            (lastOut'[1] = "ok" => currentExposureTime' = lastCmd'[1])]_vars

\* the device calls made for the setting at position i of the batch
CallsFor(i) == {k \in 1..Len(paramCalls) : paramCalls[k].index = i}

\* the setting at position i names a registered parameter and carries a value
Registered(i) ==
  paramBatch[i].name \in DOMAIN parameterMap /\ paramBatch[i].type # "NOT_SET"

\* the device calls of the batch are in batch order, none has escaped the handler
CallsInOrderNoneEscapes ==
  /\ \A k \in 1..Len(paramCalls), l \in 1..Len(paramCalls) :
       k < l => paramCalls[k].index < paramCalls[l].index
  /\ Len(paramOut) = Len(paramBatch)
  /\ paramResult \in {"none", "successful"}

\* a value of type vtype is one a node of the type takes
ValueFits(type, vtype) ==
  \/ type = "ENUM"
  \/ type \in {"FLOAT", "INT"} /\ vtype \in {"DOUBLE", "INTEGER"}
  \/ type = "BOOL" /\ vtype \in {"BOOL", "INTEGER"}

\* C12 (as claimed): every setting of a batch that names a registered
\* parameter and carries a value is attempted on the device exactly once, in
\* batch order, whatever the earlier settings did; no exception escapes.
C12_EveryValueAttempted ==
  /\ \A i \in 1..Len(paramBatch) : Registered(i) => Cardinality(CallsFor(i)) = 1
  /\ CallsInOrderNoneEscapes

\* C12 (amended): a setting is attempted on the device exactly once, in batch
\* order and whatever the earlier settings did, if it names a registered
\* parameter and carries a value of a type its node type takes (any for ENUM,
\* DOUBLE or INTEGER for FLOAT and INT, BOOL or INTEGER for BOOL); every other
\* setting makes no device call; no exception escapes the handler.
C12_EveryFittingValueAttempted ==
  /\ \A i \in 1..Len(paramBatch) :
       LET ni == parameterMap[paramBatch[i].name]
           fits == Registered(i) /\ ValueFits(ni.type, paramBatch[i].type)
       IN /\ Cardinality(CallsFor(i)) = IF fits THEN 1 ELSE 0
          /\ \A k \in CallsFor(i) :
               /\ paramCalls[k].node = ni.name
               /\ paramCalls[k].call =
                    CASE ni.type = "ENUM" -> "setEnum" [] ni.type = "FLOAT" -> "setDouble"
                      [] ni.type = "INT" -> "setInt" [] ni.type = "BOOL" -> "setBool"
  /\ CallsInOrderNoneEscapes

\* C12 witness: the device threw for the first setting of a batch, the second
\* was attempted all the same, and the batch was acknowledged
C12_Witness ==
  /\ paramResult = "successful" /\ paramOut = <<"throw", "failed">>
  /\ Len(paramCalls) = 2 /\ paramCalls[2].index = 2

\* C13: each fatal condition of start() (parameter file unreadable, camera not
\* found after the retries, initCamera failing) aborts startup: start() reports
\* failure, the camera is not started and no consumer thread is left running.
C13_FatalAbortsStartup ==
  (startFault # "none" /\ pcStart \in {"done", "failed"}) =>
     (pcStart = "failed" /\ ~cameraRunning /\ ~threadSet /\ pcRun \in {"none", "done"})

\* the discovery loop of start() is at its k-th pass
Attempt(k) == pcStart = "discover" /\ retry = k

\* C14: camera discovery makes at most 5 attempts: when the camera is found on
\* attempt k (1 <= k <= 5) discovery stops at attempt k and startup goes on;
\* when it is found on none of the 5 attempts no 6th attempt is made, startup
\* fails and the consumer thread has never been started.
C14_AtMostFiveAttempts ==
  /\ [](/\ retry \in 1..6
        /\ pcStart \in {"thread", "init", "done"} => retry \in 1..5
        /\ startFault = "camera" =>
             (retry = 6 /\ pcStart = "failed" /\ ~threadSet /\ pcRun = "none"))
  /\ [][/\ (\E k \in 1..5 : Attempt(k)) =>
             \/ pcStart' = "thread" /\ retry' = retry
             \/ pcStart' = "discover" /\ retry' \in {retry, retry + 1}
        /\ Attempt(6) => (pcStart' \in {"discover", "failed"} /\ retry' = retry)
        /\ (pcStart' = "failed" /\ startFault' = "camera" /\ pcStart # "failed")
             => Attempt(6)
        /\ pcStart # "discover" => retry' = retry]_vars

\* C14 witness: the camera was found on the 5th attempt, after 4 failures, and
\* start() went on to the end
C14_Witness == pcStart = "done" /\ retry = 5 /\ startFault = "none" /\ threadSet

\* a line of exactly 3 tokens that is not a comment
WellFormed(tokens) == Len(tokens) = 3 /\ tokens[1] \notin HashTokens

\* the well-formed lines of the file, in file order
WellFormedLines == SelectSeq(paramFile.lines, WellFormed)

\* the descriptor is built from the line's kind and device node name
BuiltFrom(ni, tokens) ==
  /\ ni.name = tokens[3]
  /\ tokens[2] = "float" => (ni.type = "FLOAT" /\ ni.descriptor = MakeDesc(tokens[3], "DOUBLE"))
  /\ tokens[2] = "int" => (ni.type = "INT" /\ ni.descriptor = MakeDesc(tokens[3], "INTEGER"))
  /\ tokens[2] = "bool" => (ni.type = "BOOL" /\ ni.descriptor = MakeDesc(tokens[3], "BOOL"))
  /\ tokens[2] = "enum" => (ni.type = "ENUM" /\ ni.descriptor = MakeDesc(tokens[3], "STRING"))

\* load succeeded and the name list has the names of the well-formed lines,
\* in file order
LoadedNamesInOrder ==
  /\ pcFile = "loaded"
  /\ parameterList = [i \in 1..Len(WellFormedLines) |-> WellFormedLines[i][1]]
  /\ DOMAIN parameterMap = {WellFormedLines[i][1] : i \in 1..Len(WellFormedLines)}

\* C15 (as claimed): for a readable file with N well-formed and M malformed
\* lines load succeeds and registers exactly N descriptors: the name list has
\* the N names in file order and the map has, for each well-formed line, a
\* descriptor built from that line; the malformed lines add nothing.
C15_LoadRegistersEveryLine ==
  (pcFile # "none" /\ paramFile.readable) =>
     /\ LoadedNamesInOrder
     /\ Cardinality(DOMAIN parameterMap) = Len(WellFormedLines)
     /\ \A i \in 1..Len(WellFormedLines) :
          BuiltFrom(parameterMap[WellFormedLines[i][1]], WellFormedLines[i])

\* C15 (amended): for a readable file load succeeds, the name list has the
\* names of the N well-formed lines in file order, and the map has one
\* descriptor per distinct name, built from the first well-formed line of that
\* name: exactly N descriptors, one per line, when the N names are distinct;
\* the malformed lines add nothing.
C15_LoadRegistersFirstOfName ==
  (pcFile # "none" /\ paramFile.readable) =>
     /\ LoadedNamesInOrder
     /\ \A i \in 1..Len(WellFormedLines) :
          (\A j \in 1..(i - 1) : WellFormedLines[j][1] # WellFormedLines[i][1])
            => BuiltFrom(parameterMap[WellFormedLines[i][1]], WellFormedLines[i])
     /\ (\A i, j \in 1..Len(WellFormedLines) :
           i # j => WellFormedLines[i][1] # WellFormedLines[j][1])
          => Cardinality(DOMAIN parameterMap) = Len(WellFormedLines)

\* C15 witness: a comment of 3 tokens, then two well-formed lines of the same
\* name: both names are listed, the map has the descriptor of the first
C15_Witness ==
  /\ pcFile = "loaded"
  /\ paramFile.lines = << <<"#gain", "float", "Gain">>, <<"gain", "float", "Gain">>,
                          <<"gain", "int", "GainRaw">> >>
  /\ parameterList = <<"gain", "gain">> /\ parameterMap["gain"].type = "FLOAT"

\* the read-back value passes the verification of the claim
Verified(in) ==
  IF in.kind = "float"
  THEN 1000 * Abs(in.v - in.retV) <= 25 * Abs(in.v + in.retV)
  ELSE in.v = in.retV

\* C16: a typed apply reports success if and only if the device returns status
\* OK and the read-back value passes verification: equality of the requested
\* and the reported value for Enum, Int and Bool (true reported as false
\* fails), |requested - actual| <= 0.025 * |requested + actual| for Float
\* (100.0 reported as 102.4 succeeds, reported as 110 fails).
C16_SuccessIffVerified ==
  applyDone =>
    /\ applyStatus <=> (applyIn.msg = "OK" /\ Verified(applyIn))
    /\ applyIn = [kind |-> "float", v |-> 1000, msg |-> "OK", retV |-> 1024] => applyStatus
    /\ applyIn = [kind |-> "float", v |-> 1000, msg |-> "OK", retV |-> 1100] => ~applyStatus
    /\ (applyIn.kind = "bool" /\ applyIn.v = TRUE /\ applyIn.retV = FALSE) => ~applyStatus

\* C16 witness: setDouble for 100.0 returned true with the device reporting 102.4
C16_Witness ==
  /\ applyDone /\ applyStatus
  /\ applyIn = [kind |-> "float", v |-> 1000, msg |-> "OK", retV |-> 1024]

\* C17 (as claimed): frames are published in FIFO order: of two published
\* frames the one pushed earlier (the smaller id) is published first.
C17_PublishedInPushOrder ==
  \A i \in 1..Len(published), j \in 1..Len(published) :
    i < j => published[i] < published[j]

\* C17 (amended): frames are published in the order the consumer pops them,
\* and a pop takes the newest queued frame: every frame left in the queue by a
\* pop was pushed before the popped one, and is published, if at all, after it.
C17_PublishedInPopOrderNewestFirst ==
  [][/\ (PopStep /\ imageQueue # <<>>) =>
          /\ \A i \in 1..Len(imageQueue') : imageQueue'[i] < img'
          /\ \A j \in 1..Len(published) : published[j] # img'
     /\ published' # published =>
          (pcRun = "publish" /\ published' = Append(published, img)
             /\ \A j \in 1..Len(published) : published[j] # img)]_vars

\* C17 witness: F2 was published before F1
C17_Witness == published = <<2, 1>>

\* C18: no counter update is lost: the read-and-reset of publishedCount and
\* droppedCount by the status timer is atomic with respect to the increments,
\* so the reset erases exactly the counts the report was made from and every
\* drop and every publication is counted in exactly one status interval.
C18_ReadAndResetAtomic ==
  [][(pcStatus = "reset" /\ pcStatus' = "idle") =>
       (publishedCount = statusSeen[1] /\ droppedCount = statusSeen[2])]_vars

\* C19: for every frame handed to doPublish: the metadata message is emitted
\* if and only if there is a metadata subscriber, whether or not there is an
\* image subscriber and whether or not the image was built or emitted; the
\* image is built (and emitted) only if there is an image subscriber; and
\* publishedCount grows by 1 exactly when the image was emitted.
C19_PublishEffects ==
  [][\A imgSub \in BOOLEAN, fillOk \in BOOLEAN, metaSub \in BOOLEAN :
       DoPublishWith(imgSub, fillOk, metaSub) =>
         /\ (metaMsg' = img) <=> metaSub
         /\ ~metaSub => metaMsg' = metaMsg
         /\ published' \in {published, Append(published, img)}
         /\ published' # published => imgSub
         /\ publishedCount' =
              IF published' # published THEN publishedCount + 1 ELSE publishedCount]_vars

\* C19 witness: doPublish ran for F1 and sent its metadata without emitting
\* an image, then ran for F2 and emitted the image without metadata
C19_Witness ==
  /\ metaMsg = 1 /\ published = <<2>> /\ publishedCount = 1
  /\ 1 \in DOMAIN fate /\ fate[1] = "published"
  /\ 2 \in DOMAIN fate /\ fate[2] = "published"

\* the frames the device has delivered (publishImage has returned for them)
Delivered == 1..(nextFrame - 1)

\* the frame has met the fate
Fate(f, what) == f \in DOMAIN fate /\ fate[f] = what

\* the number of the conditions of C20 that frame f is in
Conditions(f) ==
  Cardinality({i \in 1..Len(imageQueue) : imageQueue[i] = f})
    + (IF img = f THEN 1 ELSE 0)
    + (IF Fate(f, "dropped") THEN 1 ELSE 0)
    + (IF Fate(f, "published") THEN 1 ELSE 0)
    + (IF Fate(f, "discarded") THEN 1 ELSE 0)

\* C20: frame conservation: in every reachable state each delivered frame is
\* in exactly one condition: dropped at push (the step that counts it in
\* droppedCount), in the queue, held by the consumer after a pop, published
\* (doPublish ran for it), or discarded at shutdown. No frame is published
\* twice, no dropped frame is published, no frame is in the queue twice.
C20_FrameConservation ==
  /\ [](/\ \A f \in Delivered : Conditions(f) = 1
        /\ \A f \in 1..frameLimit + 1 : f \notin Delivered => Conditions(f) = 0
        /\ \A i \in 1..Len(published) :
             /\ Fate(published[i], "published")
             /\ \A j \in 1..Len(published) : i # j => published[i] # published[j])
  /\ [][\A f \in 1..frameLimit :
          (Fate(f, "dropped")' /\ ~Fate(f, "dropped")) =>
             (f = nextFrame /\ droppedCount' = droppedCount + 1 /\ Len(imageQueue) = 2)]_vars

\* C20 witness: of three delivered frames F3 was dropped at push, F2 was
\* popped and published, and F1 is still in the queue
C20_Witness ==
  /\ nextFrame = 4 /\ imageQueue = <<1>> /\ img = NoFrame
  /\ Fate(3, "dropped") /\ Fate(2, "published") /\ published = <<2>>

\* the frame is in the queue
InQueue(f) == \E i \in 1..Len(imageQueue) : imageQueue[i] = f

\* the consumer has just popped the frame (run, lines 470-474)
Popped(f) == pcRun = "guard" /\ img = f

\* the consumer has just popped a frame
PoppedSome == pcRun = "guard" /\ img # NoFrame

\* C21 (as claimed): while the bridge keeps running and the consumer is
\* scheduled fairly, every frame accepted into the queue is eventually popped,
\* even when the producer keeps pushing; and a consumer waiting on an empty
\* queue eventually pops a frame after a push has been accepted.
C21_EveryQueuedFramePopped ==
  /\ \A f \in 1..LiveFrames : InQueue(f) ~> Popped(f)
  /\ (pcRun = "wait" /\ imageQueue # <<>>) ~> PoppedSome

\* C21 (amended): while the bridge keeps running and the consumer is scheduled
\* fairly, a non-empty queue is eventually popped, and the frame popped is the
\* newest: the newest frame of the queue is eventually popped unless a newer
\* frame is accepted on top of it first; a consumer waiting on an empty queue
\* eventually pops a frame after a push has been accepted.
C21_NewestEventuallyPopped ==
  /\ \A f \in 1..LiveFrames :
       (imageQueue # <<>> /\ QueueBack(imageQueue) = f)
         ~> (Popped(f) \/ (Len(imageQueue) = 2 /\ imageQueue[1] = f /\ imageQueue[2] # f))
  /\ (imageQueue # <<>>) ~> PoppedSome
  /\ (pcRun = "wait" /\ imageQueue # <<>>) ~> PoppedSome

\* C21 witness: F1 is still in the queue after two later frames were accepted,
\* popped and published, and the consumer has popped a third
C21_Witness ==
  /\ imageQueue = <<1>> /\ publishedCount = 2 /\ pcRun = "guard" /\ img = 2

====
